---- MODULE Spec2Model ----
(***************************************************************************)
(* Model of the autonomous recorder of the 750C robot code                 *)
(* (src/src/autonrecorder.c, src/include/autonrecorder.h): the states      *)
(* buffer, the loaded marker, the skills section counter, the flash file   *)
(* system, and the operations initAutonRecorder, recordAuton, saveAuton,   *)
(* loadAuton and playbackAuton.  The recording and playback loops advance  *)
(* one tick per step (the code sleeps in delay() once per tick); save and  *)
(* load run to completion in one step.                                     *)
(***************************************************************************)
EXTENDS Integers, Sequences, FiniteSets, TLC

(***************************************************************************)
(* Constants of autonrecorder.h                                            *)
(***************************************************************************)
AUTON_TIME == 15
PROGSKILL_TIME == 60
JOY_POLL_FREQ == 50
MAX_AUTON_SLOTS == 10

(* Number of samples of the states array.  The program has                 *)
(* AUTON_TIME * JOY_POLL_FREQ = 750 of them; the model keeps the loops and  *)
(* the file layout and scales the length down.                             *)
NumStates == 2

(* Largest number of file handles left open that the model follows.        *)
MaxOpen == 1

(* PROGSKILL_TIME/AUTON_TIME, the number of skills sections.               *)
NumSections == PROGSKILL_TIME \div AUTON_TIME

SKILLS == MAX_AUTON_SLOTS + 1
HARDCODED == MAX_AUTON_SLOTS + 2

(***************************************************************************)
(* joyState and the conversions between signed char and file bytes         *)
(***************************************************************************)
SChar == -128..127
Byte == 0..255

(* (signed char) x for an int x *)
ToSChar(x) == ((x + 128) % 256) - 128

(* the byte fwrite stores for a signed char *)
ToByte(c) == c % 256

\* variant of FromByte: the byte is taken as an unsigned value
FromByteUnsigned(b) == b

(* the signed char fread delivers for a stored byte *)
FromByte(b) == IF b >= 128 THEN b - 256 ELSE b

joyState(s, h, t, a, l) == [spd |-> s, horizontal |-> h, turn |-> t, sht |-> a, lift |-> l]

ZeroState == joyState(0, 0, 0, 0, 0)

(* the channels in the order saveAuton writes them: write[0..4] *)
Channel(st, j) ==
    CASE j = 0 -> st.spd
      [] j = 1 -> st.horizontal
      [] j = 2 -> st.turn
      [] j = 3 -> st.sht
      [] j = 4 -> st.lift

Ticks == 0..(NumStates - 1)

(* states[i] for the 0-based index of the code *)
At(buf, i) == buf[i + 1]

ZeroBuffer == [k \in 1..NumStates |-> ZeroState]

(***************************************************************************)
(* Files of the flash file system                                          *)
(***************************************************************************)
SlotFile(slot) == <<"a", slot>>
SectionFile(sec) == <<"p", sec>>

(* the regular slot files the model follows and the four section files *)
FileNames == {SlotFile(1), SlotFile(2)} \cup {SectionFile(s) : s \in 0..(NumSections - 1)}

NoFile == [present |-> FALSE, bytes |-> <<>>]
FileOf(data) == [present |-> TRUE, bytes |-> data]

\* variant of OpenForWrite: the file is opened for append
OpenForAppend(f) == FileOf(f.bytes)

(* fopen(filename, "w"): the file exists and is empty *)
OpenForWrite(f) == FileOf(<<>>)

(* fwrite of the five channels of one sample, one byte each *)
WriteState(f, st) ==
    FileOf(f.bytes \o [j \in 1..5 |-> ToByte(Channel(st, j - 1))])

(* the loop of saveAuton over states[0 .. n-1] *)
RECURSIVE WriteStates(_, _, _)
WriteStates(f, buf, n) ==
    IF n = 0 THEN f
    ELSE WriteState(WriteStates(f, buf, n - 1), At(buf, n - 1))

(* fseek(5*i+j) and fread of one byte; the files of the model are full length *)
ReadByteAt(f, off) == f.bytes[off + 1]

(* the loop body of loadAuton for sample i *)
ReadState(f, i) ==
    joyState(FromByte(ReadByteAt(f, 5 * i + 0)),
             FromByte(ReadByteAt(f, 5 * i + 1)),
             FromByte(ReadByteAt(f, 5 * i + 2)),
             FromByte(ReadByteAt(f, 5 * i + 3)),
             FromByte(ReadByteAt(f, 5 * i + 4)))

ReadStates(f) == [k \in 1..NumStates |-> ReadState(f, k - 1)]

(* variant of ReadNext: every fread starts at the beginning of the file *)
ReadNextRewind(f, pos) ==
    LET b(j) == IF j + 1 <= Len(f.bytes) THEN f.bytes[j + 1] ELSE 0
    IN  joyState(FromByte(b(0)), FromByte(b(1)), FromByte(b(2)), FromByte(b(3)), FromByte(b(4)))

(* fread(read, 1, 5, nextFile) of playbackAuton: the next five bytes at the  *)
(* position of the handle, read[] keeping its zeros past the end of file   *)
ReadNext(f, pos) ==
    LET b(j) == IF pos + j + 1 <= Len(f.bytes) THEN f.bytes[pos + j + 1] ELSE 0
    IN  joyState(FromByte(b(0)), FromByte(b(1)), FromByte(b(2)), FromByte(b(3)), FromByte(b(4)))

(* the contents a file of the flash holds before the program writes it *)
SeedBytes(n) == [k \in 1..(5 * NumStates) |-> (n * 50 + (k - 3) * 77 + 128) % 256]

FileIndex(name) == IF name[1] = "a" THEN name[2] - 1 ELSE name[2] + 2

(***************************************************************************)
(* The program state                                                       *)
(***************************************************************************)
VARIABLES
    states,       \* joyState states[AUTON_TIME*JOY_POLL_FREQ]
    autonLoaded,  \* slot number of the loaded routine
    progSkills,   \* skills section counter
    fs,           \* the flash file system: file name -> file
    openHandles,  \* number of FILE handles opened and not yet closed
    pc,           \* position of the single thread of control
    i,            \* loop index of recordAuton / playbackAuton
    file,         \* section index of playbackAuton
    flipped,      \* argument of playbackAuton
    nextFile,     \* FILE* nextFile of playbackAuton
    moved,        \* the last actuator command of the running (or last) record/playback
    nmoved,       \* number of moveRobot() calls of the running (or last) record/playback
    written,      \* history: the samples recordAuton wrote, tick by tick
    cancelled,    \* <<section, tick>> at which the running (or last) loop was cancelled, or <<>>
    allOnline,    \* history: isOnline() was true at every tick of the running (or last) playback
    lastOp,       \* the operation that returned last and its outcome
    afterLoad,    \* history: the running (or last) playback began right after a loadAuton that read its file
    saved         \* history: the buffer as it was when each file was last saved

vars == <<states, autonLoaded, progSkills, fs, openHandles, pc, i, file,
          flipped, nextFile, moved, nmoved, written, cancelled, allOnline, lastOp, afterLoad, saved>>

NullFile == [open |-> FALSE, name |-> <<>>, pos |-> 0]

\* the values recordJoyInfo() polls into spd, horizontal, turn, sht, lift
JoyInputs == {joyState(127, 40, -127, 5, -1), joyState(-50, 0, 100, 0, 0)}

(* what a read through a null FILE* may leave in read[] when it returns *)
NullReadStates == {ZeroState, joyState(-1, -1, -1, -1, -1)}

\* the files the flash holds when the program starts: every file, a skills
\* run of which only the first two sections exist, slot 2 only
InitialFiles == {FileNames, {SectionFile(0), SectionFile(1)}, {SlotFile(2)}}

NoCmd == [op |-> "none", file |-> 0, tick |-> 0, cmd |-> ZeroState, src |-> ZeroState]

\* motorStopAll()
StopCmd == [op |-> "stop", file |-> 0, tick |-> 0, cmd |-> ZeroState, src |-> ZeroState]

NoOp == [op |-> "start", arg |-> 0, outcome |-> "none"]

Init ==
    /\ states = ZeroBuffer
    /\ autonLoaded = 0
    /\ progSkills = 0
    /\ \E present \in InitialFiles :
          fs = [f \in FileNames |->
                  IF f \in present THEN FileOf(SeedBytes(FileIndex(f))) ELSE NoFile]
    /\ openHandles = 0
    /\ pc = "idle"
    /\ i = 0
    /\ file = 0
    /\ flipped = 1
    /\ nextFile = NullFile
    /\ moved = NoCmd
    /\ nmoved = 0
    /\ written = <<>>
    /\ cancelled = <<>>
    /\ allOnline = TRUE
    /\ lastOp = NoOp
    /\ afterLoad = FALSE
    /\ saved = [f \in FileNames |-> <<>>]

\* the locals of recordAuton and playbackAuton are gone, and the history of
\* the last loop is dropped, once another operation runs
LoopReset ==
    /\ i' = 0
    /\ file' = 0
    /\ flipped' = 1
    /\ nextFile' = NullFile
    /\ moved' = NoCmd
    /\ nmoved' = 0
    /\ written' = <<>>
    /\ cancelled' = <<>>
    /\ allOnline' = TRUE
    /\ afterLoad' = FALSE

(***************************************************************************)
(* initAutonRecorder                                                       *)
(***************************************************************************)
\* memset(states, 0, sizeof( *states)): the size of one joyState, not of the array
MemsetFirst(buf) == [buf EXCEPT ![1] = ZeroState]

InitAutonRecorder ==
    /\ pc = "idle"
    /\ states' = MemsetFirst(states)
    /\ autonLoaded' = -1
    /\ progSkills' = 0
    /\ lastOp' = [op |-> "init", arg |-> 0, outcome |-> "done"]
    /\ LoopReset
    /\ UNCHANGED <<fs, openHandles, pc, saved>>

(***************************************************************************)
(* recordAuton                                                             *)
(***************************************************************************)
(* variant of Ramp: the ramp wraps at 256 *)
RampMod256(k) == ToSChar(((k * 2) % 256) - 127)

(* (signed char)((int)(i * 2) % 255 - 127) *)
Ramp(k) == ToSChar(((k * 2) % 255) - 127)

\* variant of MemsetTail: the length is one joyState short
MemsetTailShort(buf, k) ==
    [n \in 1..NumStates |-> IF n - 1 >= k + 1 /\ n - 1 < NumStates - 1 THEN ZeroState ELSE buf[n]]

(* memset(states + k + 1, 0, sizeof(joyState) * (N - k - 1)) *)
MemsetTail(buf, k) == [n \in 1..NumStates |-> IF n - 1 >= k + 1 THEN ZeroState ELSE buf[n]]

RecordAuton ==
    /\ pc = "idle"
    /\ pc' = "rec_tick"
    /\ i' = 0
    /\ file' = 0
    /\ flipped' = 1
    /\ nextFile' = NullFile
    /\ moved' = NoCmd
    /\ nmoved' = 0
    /\ written' = <<>>
    /\ cancelled' = <<>>
    /\ allOnline' = TRUE
    /\ afterLoad' = FALSE
    /\ UNCHANGED <<states, autonLoaded, progSkills, fs, openHandles, lastOp, saved>>

RecordTick(in, cancel) ==
    /\ pc = "rec_tick"
    /\ i < NumStates
    /\ LET st == joyState(ToSChar(in.spd), Ramp(i), ToSChar(in.turn),
                          ToSChar(in.sht), ToSChar(in.lift))
           stored == [states EXCEPT ![i + 1] = st]
           i1 == IF cancel THEN NumStates ELSE i
       IN  /\ states' = IF cancel THEN MemsetTail(stored, i) ELSE stored
           /\ cancelled' = IF cancel THEN <<0, i>> ELSE cancelled
           /\ moved' = [op |-> "move", file |-> 0, tick |-> i, cmd |-> in, src |-> st]
           /\ nmoved' = nmoved + 1
           /\ written' = Append(written, st)
           /\ i' = i1 + 1
           /\ pc' = IF i1 + 1 < NumStates THEN "rec_tick" ELSE "rec_end"
    /\ UNCHANGED <<autonLoaded, progSkills, fs, openHandles, file, flipped,
                   nextFile, allOnline, lastOp, afterLoad, saved>>

\* variant of RecordEnd: the marker is left as it was
RecordEndKeepsMarker ==
    /\ pc = "rec_end"
    /\ moved' = StopCmd
    /\ lastOp' = [op |-> "record", arg |-> 0,
                  outcome |-> IF cancelled = <<>> THEN "completed" ELSE "cancelled"]
    /\ pc' = "idle"
    /\ i' = 0
    /\ UNCHANGED <<states, autonLoaded, progSkills, fs, openHandles, file, flipped,
                   nextFile, nmoved, written, cancelled, allOnline, afterLoad, saved>>

RecordEnd ==
    /\ pc = "rec_end"
    /\ moved' = StopCmd
    /\ autonLoaded' = 0
    /\ lastOp' = [op |-> "record", arg |-> 0,
                  outcome |-> IF cancelled = <<>> THEN "completed" ELSE "cancelled"]
    /\ pc' = "idle"
    /\ i' = 0
    /\ UNCHANGED <<states, progSkills, fs, openHandles, file, flipped,
                   nextFile, nmoved, written, cancelled, allOnline, afterLoad, saved>>

(***************************************************************************)
(* saveAuton                                                               *)
(***************************************************************************)
\* the slot saveAuton picks: 1, or MAX_AUTON_SLOTS + 1 in a skills run
SaveSlot(ps) == IF ps = 0 THEN 1 ELSE SKILLS

SaveFileName(slot, ps) == IF slot # SKILLS THEN SlotFile(slot) ELSE SectionFile(ps)

\* the section counter after a save: ++progSkills in a skills run, then the wrap
NextProgSkills(slot, ps) ==
    LET ps1 == IF slot = SKILLS THEN ps + 1 ELSE ps
    IN  IF ps1 = NumSections THEN 0 ELSE ps1

\* variant of SaveAuton: the marker is set before the file is opened
SaveAutonEarlyMark(openOk) ==
    /\ pc = "idle"
    /\ LET autonSlot == SaveSlot(progSkills)
           filename == SaveFileName(autonSlot, progSkills)
       IN  IF ~openOk
           THEN /\ lastOp' = [op |-> "save", arg |-> filename, outcome |-> "error"]
                /\ autonLoaded' = autonSlot
                /\ UNCHANGED <<fs, openHandles, progSkills, saved>>
           ELSE LET opened == openHandles + 1
                IN  /\ fs' = [fs EXCEPT ![filename] =
                                 WriteStates(OpenForWrite(fs[filename]), states, NumStates)]
                    /\ openHandles' = opened - 1
                    /\ progSkills' = NextProgSkills(autonSlot, progSkills)
                    /\ autonLoaded' = autonSlot
                    /\ saved' = [saved EXCEPT ![filename] = states]
                    /\ lastOp' = [op |-> "save", arg |-> filename, outcome |-> "saved"]
    /\ LoopReset
    /\ UNCHANGED <<states, pc>>

SaveAuton(openOk) ==
    /\ pc = "idle"
    /\ LET autonSlot == SaveSlot(progSkills)
           filename == SaveFileName(autonSlot, progSkills)
       IN  IF ~openOk
           THEN /\ lastOp' = [op |-> "save", arg |-> filename, outcome |-> "error"]
                /\ UNCHANGED <<fs, openHandles, progSkills, autonLoaded, saved>>
           ELSE LET opened == openHandles + 1
                IN  /\ fs' = [fs EXCEPT ![filename] =
                                 WriteStates(OpenForWrite(fs[filename]), states, NumStates)]
                    /\ openHandles' = opened - 1
                    /\ progSkills' = NextProgSkills(autonSlot, progSkills)
                    /\ autonLoaded' = autonSlot
                    /\ saved' = [saved EXCEPT ![filename] = states]
                    /\ lastOp' = [op |-> "save", arg |-> filename, outcome |-> "saved"]
    /\ LoopReset
    /\ UNCHANGED <<states, pc>>

(***************************************************************************)
(* loadAuton                                                               *)
(***************************************************************************)
LoadFileName(slot) == IF slot # SKILLS THEN SlotFile(slot) ELSE SectionFile(0)

\* variant of LoadAutonResult: the marker is set before the file is opened
LoadAutonResultEarlyMark(autonSlot, buf, loaded, fsys) ==
    IF autonSlot = 0
    THEN [states |-> buf, autonLoaded |-> 0, outcome |-> "none"]
    ELSE IF autonSlot = HARDCODED
    THEN [states |-> buf, autonLoaded |-> HARDCODED, outcome |-> "hardcoded"]
    ELSE IF autonSlot # SKILLS /\ autonSlot = loaded
    THEN [states |-> buf, autonLoaded |-> loaded, outcome |-> "already"]
    ELSE LET f == fsys[LoadFileName(autonSlot)]
         IN  IF ~f.present
             THEN [states |-> buf, autonLoaded |-> autonSlot, outcome |-> "notfound"]
             ELSE [states |-> ReadStates(f), autonLoaded |-> autonSlot, outcome |-> "loaded"]

\* the buffer, the marker and the outcome loadAuton(autonSlot) returns with
LoadAutonResult(autonSlot, buf, loaded, fsys) ==
    IF autonSlot = 0
    THEN [states |-> buf, autonLoaded |-> 0, outcome |-> "none"]
    ELSE IF autonSlot = HARDCODED
    THEN [states |-> buf, autonLoaded |-> HARDCODED, outcome |-> "hardcoded"]
    ELSE IF autonSlot # SKILLS /\ autonSlot = loaded
    THEN [states |-> buf, autonLoaded |-> loaded, outcome |-> "already"]
    ELSE LET marked == IF autonSlot = SKILLS THEN SKILLS ELSE loaded
             f == fsys[LoadFileName(autonSlot)]
         IN  IF ~f.present
             THEN [states |-> buf, autonLoaded |-> marked, outcome |-> "notfound"]
             ELSE [states |-> ReadStates(f), autonLoaded |-> autonSlot, outcome |-> "loaded"]

\* the slots loadAuton is called with: none, the slots whose files the model
\* follows, the skills aggregate and the hard-coded routine
LoadSlots == {0, 1, 2, SKILLS, HARDCODED}

LoadAuton(autonSlot) ==
    /\ pc = "idle"
    /\ LET r == LoadAutonResult(autonSlot, states, autonLoaded, fs)
           opened == IF r.outcome = "loaded" THEN openHandles + 1 ELSE openHandles
       IN  /\ states' = r.states
           /\ autonLoaded' = r.autonLoaded
           /\ openHandles' = IF r.outcome = "loaded" THEN opened - 1 ELSE opened
           /\ lastOp' = [op |-> "load", arg |-> autonSlot, outcome |-> r.outcome]
    /\ LoopReset
    /\ UNCHANGED <<progSkills, fs, pc, saved>>

(***************************************************************************)
(* playbackAuton                                                           *)
(***************************************************************************)
\* variant of PlaybackCmd: the product is narrowed to a signed char
PlaybackCmdNarrow(st, fl) ==
    joyState(st.spd, st.horizontal, ToSChar(fl * st.turn), st.sht, st.lift)

\* the globals spd, horizontal, turn, sht, lift (ints) set from states[i]
PlaybackCmd(st, fl) == joyState(st.spd, st.horizontal, fl * st.turn, st.sht, st.lift)

\* variant of HasNextSection: the last prefetch is left out
HasNextSectionShort(loaded, sec) == loaded = SKILLS /\ sec < NumSections - 2

\* autonLoaded == MAX_AUTON_SLOTS + 1 && file < PROGSKILL_TIME/AUTON_TIME - 1
HasNextSection(loaded, sec) == loaded = SKILLS /\ sec < NumSections - 1

PlaybackAuton(fl) ==
    /\ pc = "idle"
    /\ openHandles < MaxOpen
    /\ LET r == IF autonLoaded = -1
                THEN LoadAutonResult(1, states, autonLoaded, fs)
                ELSE [states |-> states, autonLoaded |-> autonLoaded, outcome |-> "kept"]
           opened == IF r.outcome = "loaded" THEN openHandles + 1 ELSE openHandles
       IN  /\ states' = r.states
           /\ autonLoaded' = r.autonLoaded
           /\ openHandles' = IF r.outcome = "loaded" THEN opened - 1 ELSE opened
           /\ IF r.autonLoaded = 0
              THEN /\ pc' = "idle"
                   /\ lastOp' = [op |-> "playback", arg |-> 0, outcome |-> "nothing"]
              ELSE /\ pc' = "pb_open"
                   /\ UNCHANGED lastOp
    /\ i' = 0
    /\ file' = 0
    /\ flipped' = fl
    /\ nextFile' = NullFile
    /\ moved' = NoCmd
    /\ nmoved' = 0
    /\ written' = <<>>
    /\ cancelled' = <<>>
    /\ allOnline' = TRUE
    /\ afterLoad' = (lastOp.op = "load" /\ lastOp.outcome = "loaded")
    /\ UNCHANGED <<progSkills, fs, saved>>

\* top of the do-loop body: nextFile = NULL, then fopen of the next section
PlaybackOpen ==
    /\ pc = "pb_open"
    /\ LET name == SectionFile(file + 1)
           found == HasNextSection(autonLoaded, file) /\ fs[name].present
       IN  /\ nextFile' = IF found THEN [open |-> TRUE, name |-> name, pos |-> 0] ELSE NullFile
           /\ openHandles' = IF found THEN openHandles + 1 ELSE openHandles
    /\ i' = 0
    /\ pc' = "pb_tick"
    /\ UNCHANGED <<states, autonLoaded, progSkills, fs, file, flipped, moved, nmoved,
                   written, cancelled, allOnline, lastOp, afterLoad, saved>>

\* one iteration of the for-loop of playbackAuton
PlaybackTick(cancel, online) ==
    /\ pc = "pb_tick"
    /\ i < NumStates
    /\ LET st == At(states, i)
           cmd == PlaybackCmd(st, flipped)
           stop == cancel /\ ~online
           i1 == IF stop THEN NumStates ELSE i
           file1 == IF stop THEN NumSections ELSE file
           done == /\ i' = i1 + 1
                   /\ pc' = IF i1 + 1 < NumStates THEN "pb_tick" ELSE "pb_close"
       IN  /\ file' = file1
           /\ cancelled' = IF stop THEN <<file, i>> ELSE cancelled
           /\ allOnline' = (allOnline /\ online)
           /\ moved' = [op |-> "move", file |-> file, tick |-> i, cmd |-> cmd, src |-> st]
           /\ nmoved' = nmoved + 1
           /\ IF ~HasNextSection(autonLoaded, file1)
              THEN done /\ UNCHANGED <<states, nextFile>>
              ELSE IF nextFile.open
              THEN /\ states' = [states EXCEPT ![i1 + 1] = ReadNext(fs[nextFile.name], nextFile.pos)]
                   /\ nextFile' = [nextFile EXCEPT !.pos = @ + 5]
                   /\ done
              ELSE \* fread through a null FILE*: the read returns with something in
                   \* read[], or the program faults
                   \/ \E got \in NullReadStates :
                         /\ states' = [states EXCEPT ![i1 + 1] = got]
                         /\ UNCHANGED nextFile
                         /\ done
                   \/ /\ pc' = "crashed"
                      /\ UNCHANGED <<states, nextFile, i>>
    /\ UNCHANGED <<autonLoaded, progSkills, fs, openHandles, flipped, written, lastOp, afterLoad, saved>>

\* variant of PlaybackClose: a cancelled playback returns without motorStopAll()
PlaybackCloseNoStop ==
    /\ pc = "pb_close"
    /\ LET closing == HasNextSection(autonLoaded, file)
           file1 == file + 1
           again == autonLoaded = SKILLS /\ file1 < NumSections
           rest == /\ nextFile' = NullFile
                   /\ IF again
                      THEN /\ pc' = "pb_open"
                           /\ file' = file1
                           /\ UNCHANGED <<i, flipped, moved, lastOp>>
                      ELSE /\ pc' = "idle"
                           /\ file' = 0
                           /\ i' = 0
                           /\ flipped' = 1
                           /\ moved' = IF cancelled = <<>> THEN StopCmd ELSE moved
                           /\ lastOp' = [op |-> "playback", arg |-> 0,
                                         outcome |-> IF cancelled = <<>> THEN "played"
                                                     ELSE "cancelled"]
       IN  IF ~closing
           THEN rest /\ UNCHANGED openHandles
           ELSE IF nextFile.open
           THEN rest /\ openHandles' = openHandles - 1
           ELSE \/ rest /\ UNCHANGED openHandles
                \/ /\ pc' = "crashed"
                   /\ UNCHANGED <<i, file, flipped, nextFile, moved, lastOp, openHandles>>
    /\ UNCHANGED <<states, autonLoaded, progSkills, fs, nmoved, written,
                   cancelled, allOnline, afterLoad, saved>>

\* after the for-loop: fclose(nextFile), file++, the loop test, motorStopAll()
PlaybackClose ==
    /\ pc = "pb_close"
    /\ LET closing == HasNextSection(autonLoaded, file)
           file1 == file + 1
           again == autonLoaded = SKILLS /\ file1 < NumSections
           rest == /\ nextFile' = NullFile
                   /\ IF again
                      THEN /\ pc' = "pb_open"
                           /\ file' = file1
                           /\ UNCHANGED <<i, flipped, moved, lastOp>>
                      ELSE /\ pc' = "idle"
                           /\ file' = 0
                           /\ i' = 0
                           /\ flipped' = 1
                           /\ moved' = StopCmd
                           /\ lastOp' = [op |-> "playback", arg |-> 0,
                                         outcome |-> IF cancelled = <<>> THEN "played"
                                                     ELSE "cancelled"]
       IN  IF ~closing
           THEN rest /\ UNCHANGED openHandles
           ELSE IF nextFile.open
           THEN rest /\ openHandles' = openHandles - 1
           ELSE \* fclose of a null FILE*: returns, or the program faults
                \/ rest /\ UNCHANGED openHandles
                \/ /\ pc' = "crashed"
                   /\ UNCHANGED <<i, file, flipped, nextFile, moved, lastOp, openHandles>>
    /\ UNCHANGED <<states, autonLoaded, progSkills, fs, nmoved, written,
                   cancelled, allOnline, afterLoad, saved>>

(***************************************************************************)
(* The specification                                                       *)
(***************************************************************************)
Next ==
    \/ InitAutonRecorder
    \/ RecordAuton
    \/ \E in \in JoyInputs, cancel \in BOOLEAN : RecordTick(in, cancel)
    \/ RecordEnd
    \/ \E openOk \in BOOLEAN : SaveAuton(openOk)
    \/ \E autonSlot \in LoadSlots : LoadAuton(autonSlot)
    \/ \E fl \in {1, -1} : PlaybackAuton(fl)
    \/ PlaybackOpen
    \/ \E cancel \in BOOLEAN, online \in BOOLEAN : PlaybackTick(cancel, online)
    \/ PlaybackClose

Spec == Init /\ [][Next]_vars

TypeOK ==
    /\ states \in [1..NumStates -> [spd : SChar, horizontal : SChar, turn : SChar,
                                    sht : SChar, lift : SChar]]
    /\ autonLoaded \in {-1, 0} \cup 1..HARDCODED
    /\ progSkills \in 0..(NumSections - 1)
    /\ openHandles \in 0..(MaxOpen + 1)
    /\ pc \in {"idle", "rec_tick", "rec_end", "pb_open", "pb_tick", "pb_close", "crashed"}
    /\ \A f \in FileNames : fs[f].present => Len(fs[f].bytes) = 5 * NumStates

(***************************************************************************)
(* Properties                                                              *)
(***************************************************************************)
InPlayback == pc \in {"pb_open", "pb_tick", "pb_close"}

PlaybackReturned == pc = "idle" /\ lastOp.op = "playback" /\ lastOp.outcome # "nothing"

RecordReturned == pc = "idle" /\ lastOp.op = "record"

AllSectionsPresent == \A sec \in 0..(NumSections - 1) : fs[SectionFile(sec)].present

\* the value of a file byte as a signed 8-bit number, and back
SignedOf(b) == IF b > 127 THEN b - 256 ELSE b
ByteOf(v) == IF v < 0 THEN v + 256 ELSE v

\* channel j (0 = speed, 1 = horizontal, 2 = turn, 3 = auxiliary, 4 = lift) of a sample
ChannelOf(st, j) == <<st.spd, st.horizontal, st.turn, st.sht, st.lift>>[j + 1]

\* channel j of sample t as the bytes of file f hold it
FileChannel(f, t, j) == SignedOf(fs[f].bytes[5 * t + j + 1])

\* C1: a loadAuton that succeeds on a slot whose file was written by saveAuton
\* leaves in the buffer, sample by sample and channel by channel, the values
\* the buffer had when the file was last saved, whatever happened to the
\* buffer in between.
RoundTrip ==
    (/\ pc = "idle"
     /\ lastOp.op = "load"
     /\ lastOp.outcome \in {"loaded", "already"}
     /\ saved[LoadFileName(lastOp.arg)] # <<>>)
    => states = saved[LoadFileName(lastOp.arg)]

\* a load of slot 1 read the file back after the marker had moved off slot 1,
\* and restored a buffer with negative channel values
RoundTripWitness ==
    /\ pc = "idle"
    /\ lastOp = [op |-> "load", arg |-> 1, outcome |-> "loaded"]
    /\ saved[SlotFile(1)] # <<>>
    /\ states = saved[SlotFile(1)]
    /\ \E k \in 1..NumStates : states[k].turn < 0 /\ states[k].horizontal < 0

\* C2: after a successful saveAuton the file written holds exactly
\* 5 * NumStates bytes, byte 5*t+j being channel j of sample t in the order
\* speed, horizontal, turn, auxiliary, lift; nothing of an older file remains.
SaveLayout ==
    (pc = "idle" /\ lastOp.op = "save" /\ lastOp.outcome = "saved")
    => LET f == fs[lastOp.arg]
       IN  /\ f.present
           /\ Len(f.bytes) = 5 * NumStates
           /\ \A t \in Ticks, j \in 0..4 :
                 f.bytes[5 * t + j + 1] = ByteOf(ChannelOf(At(states, t), j))

\* a save replaced slot 1 on a flash that held every file at the start, from a
\* buffer with negative channel values
SaveLayoutWitness ==
    /\ pc = "idle"
    /\ lastOp = [op |-> "save", arg |-> SlotFile(1), outcome |-> "saved"]
    /\ AllSectionsPresent
    /\ fs[SlotFile(1)].bytes # SeedBytes(FileIndex(SlotFile(1)))
    /\ \E k \in 1..NumStates : states[k].spd < 0

\* C3 as claimed: when a recording cancelled at tick k returns, samples k and
\* later are zero and samples before k hold what was written at their ticks.
CancelZeroFillFromK ==
    (RecordReturned /\ cancelled # <<>>)
    => LET k == cancelled[2]
       IN  \A t \in Ticks :
              IF t >= k THEN At(states, t) = ZeroState
              ELSE At(states, t) = written[t + 1]

\* C3 as amended: when a recording cancelled at tick k returns, the samples
\* after k are zero and samples 0..k, tick k included, hold what was written
\* at their ticks.
CancelZeroFill ==
    (RecordReturned /\ cancelled # <<>>)
    => LET k == cancelled[2]
       IN  \A t \in Ticks :
              IF t > k THEN At(states, t) = ZeroState
              ELSE At(states, t) = written[t + 1]

\* a recording cancelled at tick 0 returned: sample 0 holds the recorded
\* values, the rest is zero
CancelZeroFillWitness ==
    /\ RecordReturned
    /\ cancelled = <<0, 0>>
    /\ At(states, 0) # ZeroState
    /\ At(states, 0) = written[1]
    /\ \A t \in Ticks : t > 0 => At(states, t) = ZeroState

\* C4: a skills playback started right after loadAuton(11), with the four
\* section files present and never cancelled, drives tick t of section s
\* from sample t of file p{s} (the turn channel times the mirror flag), the
\* sections in the order 0,1,2,3, and returns after NumSections * NumStates
\* ticks with motorStopAll() as its last command.
SkillsOrder ==
    (afterLoad /\ autonLoaded = SKILLS /\ AllSectionsPresent /\ cancelled = <<>>)
    => /\ pc # "crashed"
       /\ moved.op = "move" =>
             LET f == SectionFile(moved.file)
             IN  /\ moved.file \in 0..(NumSections - 1)
                 /\ nmoved = moved.file * NumStates + moved.tick + 1
                 /\ moved.cmd.spd = FileChannel(f, moved.tick, 0)
                 /\ moved.cmd.horizontal = FileChannel(f, moved.tick, 1)
                 /\ moved.cmd.turn = flipped * FileChannel(f, moved.tick, 2)
                 /\ moved.cmd.sht = FileChannel(f, moved.tick, 3)
                 /\ moved.cmd.lift = FileChannel(f, moved.tick, 4)
       /\ PlaybackReturned => nmoved = NumSections * NumStates /\ moved = StopCmd

\* such a playback has returned after all of its ticks
SkillsOrderWitness ==
    /\ PlaybackReturned
    /\ afterLoad
    /\ autonLoaded = SKILLS
    /\ AllSectionsPresent
    /\ cancelled = <<>>
    /\ nmoved = NumSections * NumStates

\* C5 as claimed: every successful saveAuton moves the section counter one
\* step along 0 -> 1 -> 2 -> 3 -> 0.
SkillsWrapAround ==
    [][SaveAuton(TRUE) => progSkills' = (progSkills + 1) % NumSections]_vars

\* the marker names nothing, or names a routine whose data is in the buffer
MarkerConsistent ==
    \/ autonLoaded \in {-1, 0, HARDCODED}
    \/ /\ autonLoaded \in {1, 2}
       /\ fs[SlotFile(autonLoaded)].present
       /\ \A t \in Ticks, j \in 0..4 :
             ChannelOf(At(states, t), j) = FileChannel(SlotFile(autonLoaded), t, j)
    \/ /\ autonLoaded = SKILLS
       /\ fs[SectionFile(0)].present
       /\ \A t \in Ticks, j \in 0..4 :
             ChannelOf(At(states, t), j) = FileChannel(SectionFile(0), t, j)

\* C6 as claimed: a loadAuton that finds no file returns with the marker
\* naming nothing, or naming a routine whose data is in the buffer.
LoadMissSafe ==
    (pc = "idle" /\ lastOp.op = "load" /\ lastOp.outcome = "notfound")
    => MarkerConsistent

PlaybackGate ==
    /\ (cancelled # <<>> /\ (InPlayback \/ PlaybackReturned))
          => nmoved = cancelled[1] * NumStates + cancelled[2] + 1
    /\ ((PlaybackReturned \/ pc = "crashed") /\ allOnline)
          => nmoved = IF autonLoaded = SKILLS THEN NumSections * NumStates ELSE NumStates

\* C9 as claimed: whenever an operation has returned, no file handle is open.
HandlesClosed == pc = "idle" => openHandles = 0

\* C10 as claimed: when initAutonRecorder returns, every sample is zero, the
\* marker is -1 and the section counter is 0.
InitZeroes ==
    (pc = "idle" /\ lastOp.op = "init")
    => states = ZeroBuffer /\ autonLoaded = -1 /\ progSkills = 0

\* C11: a saveAuton whose file cannot be opened for writing writes nothing
\* (no file of the flash changes, no handle stays open) and leaves the loaded
\* marker, the section counter and the buffer as they were before the call.
WriteFailureKeeps ==
    [][(pc = "idle" /\ pc' = "idle" /\ lastOp'.op = "save" /\ lastOp'.outcome = "error"
        /\ lastOp' # lastOp)
       => /\ fs' = fs
          /\ autonLoaded' = autonLoaded
          /\ progSkills' = progSkills
          /\ states' = states
          /\ openHandles' = openHandles]_vars

\* a save failed while the marker named slot 2 and the buffer was not empty,
\* and slot 1 still has no file
WriteFailureWitness ==
    /\ pc = "idle"
    /\ lastOp = [op |-> "save", arg |-> SlotFile(1), outcome |-> "error"]
    /\ autonLoaded = 2
    /\ states # ZeroBuffer
    /\ ~fs[SlotFile(1)].present

\* recordAuton is inside its sampling loop, or just past it, and has driven a tick
RecordDriven == pc \in {"rec_tick", "rec_end"} /\ moved.op = "move"

\* C12 as claimed: at every sampled tick of recordAuton the five values the
\* actuators are driven with equal, channel by channel, the five values
\* written into the sample of that tick.
RecordPassThrough ==
    RecordDriven => \A j \in 0..4 : ChannelOf(moved.cmd, j) = ChannelOf(moved.src, j)

\* the samples the bytes of file name stand for
Decoded(name) ==
    [k \in 1..NumStates |->
        joyState(FileChannel(name, k - 1, 0), FileChannel(name, k - 1, 1),
                 FileChannel(name, k - 1, 2), FileChannel(name, k - 1, 3),
                 FileChannel(name, k - 1, 4))]

\* an uncancelled skills playback is running and the files p1..p3 are present
SkillsPlaying ==
    /\ InPlayback
    /\ autonLoaded = SKILLS
    /\ cancelled = <<>>
    /\ \A sec \in 1..(NumSections - 1) : fs[SectionFile(sec)].present

\* C13: during an uncancelled skills playback with p1..p3 present, the sample
\* driven at a tick of section s >= 1 is the sample of p{s} (it is read before
\* it is overwritten), the ticks already played in section s < 3 hold the
\* samples of p{s+1} and the ticks still to play hold those of p{s}, when
\* section s < 3 finishes the whole buffer is the decoded p{s+1}, and during
\* section 3 the buffer stays the decoded p3.
SkillsPrefetch ==
    SkillsPlaying =>
       /\ (moved.op = "move" /\ moved.file >= 1)
             => moved.src = At(Decoded(SectionFile(moved.file)), moved.tick)
       /\ (pc = "pb_tick" /\ file < NumSections - 1)
             => \A t \in Ticks :
                   /\ t < i => At(states, t) = At(Decoded(SectionFile(file + 1)), t)
                   /\ (t >= i /\ file >= 1) => At(states, t) = At(Decoded(SectionFile(file)), t)
       /\ (pc = "pb_close" /\ file < NumSections - 1)
             => states = Decoded(SectionFile(file + 1))
       /\ (pc = "pb_open" /\ file >= 1) => states = Decoded(SectionFile(file))
       /\ file = NumSections - 1 => states = Decoded(SectionFile(NumSections - 1))

\* section 2 has played its last tick from the samples of p2 and the buffer
\* now holds p3, which differs from p2 at every tick
SkillsPrefetchWitness ==
    /\ SkillsPlaying
    /\ pc = "pb_close"
    /\ file = NumSections - 2
    /\ moved.op = "move"
    /\ moved.tick = NumStates - 1
    /\ moved.src = At(Decoded(SectionFile(file)), NumStates - 1)
    /\ states = Decoded(SectionFile(file + 1))
    /\ \A t \in Ticks : At(Decoded(SectionFile(file)), t) # At(Decoded(SectionFile(file + 1)), t)

\* C14 as claimed, on a flash that holds p0: whenever the marker is 11 and no
\* operation is in progress, the buffer equals the decoded contents of p0.
SkillsMarkerConsistent ==
    (pc = "idle" /\ autonLoaded = SKILLS /\ fs[SectionFile(0)].present)
        => states = Decoded(SectionFile(0))

\* a tick of playbackAuton that calls fread on a handle that did not open
NullRead == pc = "pb_tick" /\ HasNextSection(autonLoaded, file') /\ ~nextFile.open

\* the end of a section that calls fclose on a handle that did not open
NullClose == pc = "pb_close" /\ HasNextSection(autonLoaded, file) /\ ~nextFile.open

\* C15 as claimed: playbackAuton never reads from or closes a handle that
\* failed to open.
AbsentSectionSafe == [][~(NullRead \/ NullClose)]_vars

\* C16: outside a recording, whenever the marker is a regular slot k the file
\* a{k} exists and the buffer equals its decoded contents; so a loadAuton(k)
\* that took the "already loaded" shortcut returns with the buffer a real
\* reload of a{k} would have produced.
RegularMarkerConsistent ==
    /\ (pc \notin {"rec_tick", "rec_end"} /\ autonLoaded \in 1..MAX_AUTON_SLOTS)
          => /\ fs[SlotFile(autonLoaded)].present
             /\ states = Decoded(SlotFile(autonLoaded))
    /\ (pc = "idle" /\ lastOp.op = "load" /\ lastOp.outcome = "already")
          => /\ autonLoaded = lastOp.arg
             /\ fs[SlotFile(lastOp.arg)].present
             /\ states = LoadAutonResult(lastOp.arg, ZeroBuffer, -1, fs).states

\* loadAuton(1) took the shortcut on a buffer that a saveAuton had written to a1
RegularMarkerWitness ==
    /\ pc = "idle"
    /\ lastOp = [op |-> "load", arg |-> 1, outcome |-> "already"]
    /\ autonLoaded = 1
    /\ states # ZeroBuffer
    /\ states = Decoded(SlotFile(1))
    /\ fs[SlotFile(1)].bytes # SeedBytes(FileIndex(SlotFile(1)))

\* C17 as claimed: every value playbackAuton drives to the actuators lies in
\* the signed 8-bit range, for both mirror flags.
CommandRange ==
    (pc \in {"pb_tick", "pb_close", "crashed"} /\ moved.op = "move")
        => \A j \in 0..4 : ChannelOf(moved.cmd, j) \in SChar

\* C18: a playbackAuton called with the marker 0 returns at once: no actuator
\* command, no file opened, buffer, marker and section counter unchanged; and
\* every recordAuton, cancelled or not, returns with the marker 0.
PlaybackNothing ==
    [][/\ (pc = "idle" /\ autonLoaded = 0 /\ \E fl \in {1, -1} : PlaybackAuton(fl))
          => /\ pc' = "idle"
             /\ moved' = NoCmd
             /\ nmoved' = 0
             /\ nextFile' = NullFile
             /\ openHandles' = openHandles
             /\ fs' = fs
             /\ states' = states
             /\ autonLoaded' = 0
             /\ progSkills' = progSkills
       /\ (pc = "rec_end" /\ pc' = "idle") => autonLoaded' = 0]_vars

\* playbackAuton returned without playing a buffer that a recording cancelled
\* after its first tick had left behind
PlaybackNothingWitness ==
    /\ pc = "idle"
    /\ lastOp = [op |-> "playback", arg |-> 0, outcome |-> "nothing"]
    /\ autonLoaded = 0
    /\ states # ZeroBuffer
    /\ moved = NoCmd
    /\ nmoved = 0

\* C19: when a playbackAuton that drove the actuators returns, played to its
\* end or cancelled at any tick of any section, the last command it issued is
\* the stop-all; inside the playback no stop-all has been issued yet, so no
\* sample is driven after it.
StopAllLast ==
    /\ PlaybackReturned => (nmoved >= 1 /\ moved = StopCmd)
    /\ InPlayback => moved.op # "stop"

\* a skills playback cancelled in its second section has returned
StopAllLastWitness ==
    /\ PlaybackReturned
    /\ lastOp.outcome = "cancelled"
    /\ cancelled = <<1, NumStates - 1>>
    /\ nmoved = 2 * NumStates
    /\ moved = StopCmd

HardcodedBypass ==
    (InPlayback /\ autonLoaded = HARDCODED) => moved.op # "move"

====
